---------------------------- MODULE Spec2Model ----------------------------
(***************************************************************************)
(* Verification model of the jscodeshift migrations of this repository:    *)
(*   - src/migrate-sinon-to-node-test.ts (sinon sandbox stubs -> node:test *)
(*     mock.method), specification Spec;                                   *)
(*   - src/unnamed/part_000 (should/mocha -> node:assert, two variants of  *)
(*     the same transform), specification AssertSpec.                      *)
(* A file is modelled by its syntax tree restricted to what the transforms *)
(* inspect: the import declarations, the test blocks (it/test/hook calls)  *)
(* and the statements inside them.                                         *)
(***************************************************************************)
EXTENDS Integers, Sequences, FiniteSets, TLC

(***************************************************************************)
(* Bounds of the model.                                                    *)
(***************************************************************************)
MaxStmts == 4

(***************************************************************************)
(* Generic helpers on sequences.                                           *)
(***************************************************************************)
Range(s) == {s[i] : i \in DOMAIN s}

RECURSIVE Flatten(_)
Flatten(ss) == IF ss = <<>> THEN <<>> ELSE Head(ss) \o Flatten(Tail(ss))

Ids(seq) == [i \in DOMAIN seq |-> seq[i].id]

(***************************************************************************)
(* Expression nodes that occur as call arguments.                          *)
(***************************************************************************)
Ident(n) == [tag |-> "ident", name |-> n, v |-> 0]
Lit(i) == [tag |-> "lit", name |-> "", v |-> i]
PromiseResolve(x) == [tag |-> "Promise.resolve", name |-> x.name, v |-> x.v]
Undefined == Ident("undefined")

Call(n, as) == [name |-> n, args |-> as]

(***************************************************************************)
(* Statements.  id is the node identity (the position in the parsed        *)
(* source), blk the enclosing block.                                       *)
(*   stub    : const v = sandBox.stub(cls.prototype, 'mem');               *)
(*             with v = "" the call is an expression statement of its own, *)
(*             sandBox.stub(cls.prototype, 'mem');  and with calls on it   *)
(*             sandBox.stub(cls.prototype, 'mem').c1(..);                  *)
(*   chain   : v.c1(..).c2(..);          (calls, innermost first)          *)
(*   restore : obj.restore();            (obj is sandBox or sinon)         *)
(*   mock    : mock.method(cls.prototype as any, 'mem', (...args) => impl) *)
(*   reset   : mock.reset();                                               *)
(***************************************************************************)
Stmt(i, b, kind, var, c, m, cs, im) ==
  [id |-> i, blk |-> b, k |-> kind, v |-> var, cls |-> c, mem |-> m,
   calls |-> cs, impl |-> im]

StubStmt(i, b, var, c, m) == Stmt(i, b, "stub", var, c, m, <<>>, <<>>)
ChainStmt(i, b, var, cs) == Stmt(i, b, "chain", var, "", "", cs, <<>>)
RestoreStmt(i, b, obj) == Stmt(i, b, "restore", obj, "", "", <<>>, <<>>)
MockStmt(i, b, c, m, im) == Stmt(i, b, "mock", "", c, m, <<>>, im)
ResetStmt(i, b) == Stmt(i, b, "reset", "", "", "", <<>>, <<>>)

(***************************************************************************)
(* Import declarations: import { specifiers } from 'source'.  kind is the  *)
(* node type the parser gives the statement.                               *)
(***************************************************************************)
ImportDecl(src, specs) ==
  [kind |-> "ImportDeclaration", source |-> src, specifiers |-> specs]

(***************************************************************************)
(* State of one run of the sinon migration.                                *)
(*   pc         position in transform()                                    *)
(*   run        1 for the first run, 2 for the run on its own output       *)
(*   imports    the import declarations of the tree (root)                 *)
(*   sandboxDecl  whether  const sandBox = sinon.createSandbox()  is there *)
(*   blocks     the call blocks of the file (it/test/hooks), with parents  *)
(*   src        the statements of file.source as parsed, never mutated     *)
(*   body       the statements of the tree (root), mutated by the passes   *)
(*   stubChains the Map of the first pass                                  *)
(*   work       the paths of the collection the current forEach iterates   *)
(*   out1       the text returned by the first run                         *)
(***************************************************************************)
VARIABLES pc, run, imports, sandboxDecl, blocks, src, body, stubChains, work, out1

\* state of the assertion migration (src/unnamed/part_000), idle while mocks migrate
\* (tree is the last expression statement of the file, lead the ones before it)
VARIABLES variant, filePath, hookCalls, otherIdents, tree, input, lead

vars == <<pc, run, imports, sandboxDecl, blocks, src, body, stubChains, work, out1,
          variant, filePath, hookCalls, otherIdents, tree, input, lead>>

assertVars == <<variant, filePath, hookCalls, otherIdents, tree, input, lead>>

mockVars == <<sandboxDecl, blocks, src, body, stubChains, work>>

\* a call it('n', ..), test('n', ..), describe('n', ..) or a hook call; name is
\* node.arguments[0].value and literal tells whether that argument is a string literal
Block(c, n, p) == [callee |-> c, name |-> n, parent |-> p, literal |-> TRUE]

\* it(title, ..): the first argument is an identifier, which has no value
BlockOn(c, p) == [callee |-> c, name |-> "undefined", parent |-> p, literal |-> FALSE]

RECURSIVE TestNameIn(_, _)
\* the walk up the parents to the nearest it/test call; '' when there is none
TestNameIn(bs, b) ==
  IF b = 0 THEN ""
  ELSE IF bs[b].callee \in {"it", "test"} THEN bs[b].name
  ELSE TestNameIn(bs, bs[b].parent)

TestName(b) == TestNameIn(blocks, b)

RECURSIVE Ancestors(_, _)
\* b and the blocks that enclose it
Ancestors(bs, b) == IF b = 0 THEN {} ELSE {b} \cup Ancestors(bs, bs[b].parent)

StmtById(seq, i) == CHOOSE st \in Range(seq) : st.id = i

(***************************************************************************)
(* Lines 12-58: the sinon import is removed and mock is imported.          *)
(***************************************************************************)
hasSinonImport(imps) == \E i \in DOMAIN imps : imps[i].kind = "ImportDeclaration" /\ imps[i].source = "sinon"

RemoveImports(imps, sources) ==
  SelectSeq(imps, LAMBDA d : ~(d.kind = "ImportDeclaration" /\ d.source \in sources))

hasMocks(d) == "mocks" \in Range(d.specifiers)

nodeTestImports(imps) ==
  {i \in DOMAIN imps : imps[i].kind = "ImportDeclaration" /\ imps[i].source = "node:test"}

AddMockImport(imps) ==
  IF nodeTestImports(imps) = {}
  THEN <<ImportDecl("node:test", <<"mock", "mocks">>)>> \o imps
  ELSE [i \in DOMAIN imps |->
          IF i \in nodeTestImports(imps) /\ ~hasMocks(imps[i])
          THEN [imps[i] EXCEPT !.specifiers = Append(@, "mock")]
          ELSE imps[i]]

\* the guard of line 19 dropped: mock is imported whether or not sinon was
SinonImportsStepUnguarded(imps) == AddMockImport(RemoveImports(imps, {"sinon"}))

SinonImportsStep(imps) ==
  IF hasSinonImport(imps) THEN AddMockImport(RemoveImports(imps, {"sinon"})) ELSE imps

NormalizeImports ==
  /\ pc = "imports"
  /\ imports' = SinonImportsStep(imports)
  /\ pc' = "sandbox"
  /\ UNCHANGED <<run, sandboxDecl, blocks, src, body, stubChains, work, out1>>
  /\ UNCHANGED assertVars

(***************************************************************************)
(* Lines 60-87: the createSandbox declaration is removed; then the first   *)
(* pass finds every sandBox.stub call.                                     *)
(***************************************************************************)
IsStubCall(st) == st.k = "stub"

StubPaths(seq) == Ids(SelectSeq(seq, IsStubCall))

RemoveCreateSandbox ==
  /\ pc = "sandbox"
  /\ sandboxDecl' = FALSE
  /\ work' = StubPaths(body)
  /\ pc' = "collect"
  /\ UNCHANGED <<run, imports, blocks, src, body, stubChains, out1>>
  /\ UNCHANGED assertVars

(***************************************************************************)
(* Lines 88-264: the first pass, one sandBox.stub call.                    *)
(***************************************************************************)
Key(c, m, t) == <<c, m, t>>

\* lines 95-116: className is null unless the first argument is Identifier.member,
\* methodName is undefined for a second argument of a node kind the code does not
\* know.  cls is the object of the first argument: "A" for A.prototype, "ns.A"
\* for ns.A.prototype, "" for an argument without object (an identifier); mem
\* is "" for a second argument that is no literal, identifier or cast
Resolvable(st) == st.cls \notin {"", "ns.A"} /\ st.mem # ""

\* lines 99-110: the member name the first pass reads; a member expression K.m
\* (mem is "K.m") gives the name of its property
methodName1(st) == IF st.mem = "K.m" THEN "m" ELSE st.mem

\* lines 142-148: the walk up from the call finds a VariableDeclarator when the
\* call initialises a declaration
varDecPath(st) == st.v # ""

\* lines 152-161: the calls on the stub variable, found in a fresh parse of file.source
references(varName) ==
  SelectSeq(src, LAMBDA st : st.k = "chain" /\ st.v = varName)

\* the test of line 185 dropped: chains of every test are taken
processCallChainAnyTest(ref, testName) == ref.calls

\* lines 168-201: the calls of one chain, kept when the chain sits in a test of the same name
processCallChain(ref, testName) ==
  IF TestName(ref.blk) = testName THEN ref.calls ELSE <<>>

\* lines 209-214
methodCalls(varName, testName) ==
  LET refs == references(varName)
  IN Flatten([i \in DOMAIN refs |-> processCallChain(refs[i], testName)])

RECURSIVE GroupCalls(_, _)
GroupCalls(calls, currentChain) ==
  IF calls = <<>> THEN <<>>
  ELSE LET cur == Append(currentChain, Head(calls))
       IN IF Head(calls).name \in {"returns", "resolves"}
          THEN <<cur>> \o GroupCalls(Tail(calls), <<>>)
          ELSE GroupCalls(Tail(calls), cur)

\* lines 220-233: the method calls cut after every returns / resolves
chainGroups(calls) == GroupCalls(calls, <<>>)

\* lines 236-253: one StubReplacement per group
BuildChain(group) ==
  LET withs == SelectSeq(group, LAMBDA c : c.name = "withArgs")
      last == group[Len(group)]
  IN [hasArgs |-> withs # <<>>,
      args |-> IF withs # <<>> THEN withs[Len(withs)].args ELSE <<>>,
      returnValue |-> IF last.name = "returns" THEN last.args[1]
                      ELSE PromiseResolve(last.args[1])]

\* chains.unshift(chain) for chains.push(chain): newest entry first
CollectChainsNewestFirst(groups) ==
  [i \in DOMAIN groups |-> BuildChain(groups[Len(groups) + 1 - i])]

\* lines 235-258
CollectChains(groups) == [i \in DOMAIN groups |-> BuildChain(groups[i])]

StubKey(st) == Key(st.cls, methodName1(st), TestName(st.blk))

CollectStub ==
  /\ pc = "collect"
  /\ work # <<>>
  /\ LET st == StmtById(body, Head(work))
         key == StubKey(st)
         chains == CollectChains(chainGroups(methodCalls(st.v, TestName(st.blk))))
     IN stubChains' =
          IF ~Resolvable(st) \/ key \in DOMAIN stubChains \/ ~varDecPath(st) \/ chains = <<>>
          THEN stubChains
          ELSE stubChains @@ (key :> chains)
  /\ work' = Tail(work)
  /\ UNCHANGED <<pc, run, imports, sandboxDecl, blocks, src, body, out1>>
  /\ UNCHANGED assertVars

(***************************************************************************)
(* Lines 266-451: the second pass replaces every sandBox.stub call by      *)
(* mock.method and removes the configuration statements of its variable.   *)
(***************************************************************************)
FindStubsToReplace ==
  /\ pc = "collect"
  /\ work = <<>>
  /\ work' = StubPaths(body)
  /\ pc' = "replace"
  /\ UNCHANGED <<run, imports, sandboxDecl, blocks, src, body, stubChains, out1>>
  /\ UNCHANGED assertVars

ReturnStatement(value) == [t |-> "return", eq |-> <<>>, value |-> value]

\* if (args.length > 0 && args[0] === eq[1] && args[1] === eq[2] ...) { return value }
IfStatement(eq, value) == [t |-> "if", eq |-> eq, value |-> value]

\* lines 332-369: one statement of the arrow function per chain, in the order of the chains
ChainBranch(chain) ==
  IF ~chain.hasArgs \/ Len(chain.args) = 0
  THEN ReturnStatement(chain.returnValue)
  ELSE IfStatement(chain.args, chain.returnValue)

\* lines 327-375: the body of (...args) => { ... }
mockImpl(chains) ==
  [i \in DOMAIN chains |-> ChainBranch(chains[i])]
  \o (IF \E i \in DOMAIN chains : chains[i].hasArgs /\ Len(chains[i].args) > 0
      THEN <<ReturnStatement(Undefined)>>
      ELSE <<>>)

\* lines 321: stubChains.get(key) || []
currentTestChains(key) == IF key \in DOMAIN stubChains THEN stubChains[key] ELSE <<>>

\* lines 410-411: the identifiers named stubVarName, wherever they stand in the
\* statement: the variable the calls are made on, or an argument of a call
Mentions(st, name) ==
  \/ st.v = name
  \/ \E i \in DOMAIN st.calls : Ident(name) \in Range(st.calls[i].args)

\* lines 412-437: an expression statement that holds the identifier and whose call
\* chain holds a withArgs, returns or resolves call
IsChainOf(st, name) ==
  /\ st.k = "chain"
  /\ Mentions(st, name)
  /\ \E i \in DOMAIN st.calls : st.calls[i].name \in {"withArgs", "returns", "resolves"}

\* lines 388-396: the member literal of the mock.method call, '' for a member
\* argument that has neither a value nor a name
mockLiteral(st) == IF st.mem = "K.m" THEN "" ELSE st.mem

\* lines 401-404: the statement of the stub call becomes the mock.method statement
InstallMock(seq, st, im) ==
  [i \in DOMAIN seq |-> IF seq[i].id = st.id THEN MockStmt(st.id, st.blk, st.cls, mockLiteral(st), im) ELSE seq[i]]

\* line 402: path.parent.parent is the declaration of  const v = sandBox.stub(..),
\* the outer call of  sandBox.stub(..).c1(..);  and, for the expression statement
\* sandBox.stub(..);  the block that holds the statement: the block is replaced
\* by the mock.method statement, with everything that was in it
ReplaceSite(seq, st, im) ==
  IF st.v = "" /\ st.calls = <<>>
  THEN SelectSeq(InstallMock(seq, st, im),
                 LAMBDA x : x.id = st.id \/ st.blk \notin Ancestors(blocks, x.blk))
  ELSE InstallMock(seq, st, im)

\* line 407: path.parent.node.id?.name, undefined ("") unless the parent of the
\* call is a declarator
stubVarName(st) == IF st.calls = <<>> THEN st.v ELSE ""

\* lines 406-449
RemoveChains(seq, name) == SelectSeq(seq, LAMBDA st : ~IsChainOf(st, name))

\* line 281: args[0].object
HasObject(st) == st.cls # ""

\* lines 282 and 383: args[0].object.name is undefined when the object is no
\* identifier, and j.identifier(undefined) throws
BuilderThrows(st) == st.cls = "ns.A"

\* lines 284-291 and 319: the method name the second pass puts in the key
methodName2(st) == IF st.mem \in {"", "K.m"} THEN "undefined" ELSE st.mem

ReplaceKey(st) == Key(st.cls, methodName2(st), TestName(st.blk))

ReplaceStub ==
  /\ pc = "replace"
  /\ work # <<>>
  /\ LET st == StmtById(src, Head(work))
         key == ReplaceKey(st)
         installed == ReplaceSite(body, st, mockImpl(currentTestChains(key)))
     IN IF ~HasObject(st)
        THEN /\ work' = Tail(work)
             /\ UNCHANGED <<pc, body>>
        ELSE IF BuilderThrows(st)
        THEN /\ pc' = "threw"
             /\ UNCHANGED <<work, body>>
        ELSE /\ body' = IF stubVarName(st) = "" THEN installed
                         ELSE RemoveChains(installed, stubVarName(st))
             /\ work' = Tail(work)
             /\ UNCHANGED pc
  /\ UNCHANGED <<run, imports, sandboxDecl, blocks, src, stubChains, out1>>
  /\ UNCHANGED assertVars

(***************************************************************************)
(* Lines 454-520: sandBox.restore() and sinon.restore() become             *)
(* mock.reset().                                                           *)
(***************************************************************************)
IsRestoreCall(st) == st.k = "restore" /\ st.v \in {"sandBox", "sinon"}

FindRestores ==
  /\ pc = "replace"
  /\ work = <<>>
  /\ work' = Ids(SelectSeq(body, IsRestoreCall))
  /\ pc' = "restore"
  /\ UNCHANGED <<run, imports, sandboxDecl, blocks, src, body, stubChains, out1>>
  /\ UNCHANGED assertVars

\* lines 471-482: the afterEach calls that enclose block b
AfterEachOf(b) == {a \in Ancestors(blocks, b) : blocks[a].callee = "afterEach"}

\* the nearest one: the walk up stops at the first afterEach call
NearestAfterEach(b) == CHOOSE a \in AfterEachOf(b) : \A c \in AfterEachOf(b) : c \in Ancestors(blocks, a)

\* lines 486-493
existingReset(seq, a) == \E i \in DOMAIN seq : seq[i].blk = a /\ seq[i].k = "reset"

ReplaceWithReset(seq, id) ==
  [i \in DOMAIN seq |-> IF seq[i].id = id THEN ResetStmt(id, seq[i].blk) ELSE seq[i]]

RemoveStmt(seq, id) == SelectSeq(seq, LAMBDA st : st.id # id)

RestoreStep(seq, st) ==
  IF AfterEachOf(st.blk) # {}
  THEN IF ~existingReset(seq, NearestAfterEach(st.blk))
       THEN ReplaceWithReset(seq, st.id)
       ELSE RemoveStmt(seq, st.id)
  ELSE ReplaceWithReset(seq, st.id)

ReplaceRestore ==
  /\ pc = "restore"
  /\ work # <<>>
  /\ body' = RestoreStep(body, StmtById(body, Head(work)))
  /\ work' = Tail(work)
  /\ UNCHANGED <<pc, run, imports, sandboxDecl, blocks, src, stubChains, out1>>
  /\ UNCHANGED assertVars

(***************************************************************************)
(* Line 522: root.toSource().  The printer writes the tree as text; a      *)
(* second run parses that text again, which numbers the nodes afresh.      *)
(***************************************************************************)
PrintStmt(st) ==
  [blk |-> st.blk, k |-> st.k, v |-> st.v, cls |-> st.cls, mem |-> st.mem,
   calls |-> st.calls, impl |-> st.impl]

ParseStmt(tx, i) == Stmt(i, tx.blk, tx.k, tx.v, tx.cls, tx.mem, tx.calls, tx.impl)

\* import assert = require('assert') is printed from an expression statement and
\* parses as a TSImportEqualsDeclaration; every other declaration parses as printed
ParseImport(d) ==
  IF d.kind = "ExpressionStatement" THEN [d EXCEPT !.kind = "TSImportEqualsDeclaration"] ELSE d

toSource(imps, decl, seq) ==
  [imports |-> imps, sandboxDecl |-> decl, stmts |-> [i \in DOMAIN seq |-> PrintStmt(seq[i])]]

ParseBody(text) == [i \in DOMAIN text.stmts |-> ParseStmt(text.stmts[i], i)]

ParseImports(text) == [i \in DOMAIN text.imports |-> ParseImport(text.imports[i])]

NoText == [imports |-> <<>>, sandboxDecl |-> FALSE, stmts |-> <<>>]

Return ==
  /\ pc = "restore"
  /\ work = <<>>
  /\ pc' = "done"
  /\ out1' = IF run = 1 THEN toSource(imports, sandboxDecl, body) ELSE out1
  /\ UNCHANGED <<run, imports, sandboxDecl, blocks, src, body, stubChains, work>>
  /\ UNCHANGED assertVars

\* the transform is run again on the text it returned
Rerun ==
  /\ pc = "done"
  /\ run = 1
  /\ run' = 2
  /\ pc' = "imports"
  /\ imports' = ParseImports(out1)
  /\ sandboxDecl' = out1.sandboxDecl
  /\ src' = ParseBody(out1)
  /\ body' = ParseBody(out1)
  /\ stubChains' = <<>>
  /\ UNCHANGED <<blocks, work, out1>>
  /\ UNCHANGED assertVars

(***************************************************************************)
(* The input files: at most MaxStmts statements, import declarations       *)
(* included.  A statement at position i that supplies a result returns     *)
(* the literal i, so every result expression is a distinct node.           *)
(***************************************************************************)
ChainShapes == {"returns", "withArgs(a).returns", "withArgs(b).returns", "withArgs(a)", "calledOnce"}

ShapeCalls(shape, i) ==
  CASE shape = "returns" -> <<Call("returns", <<Lit(i)>>)>>
    [] shape = "withArgs(a).returns" -> <<Call("withArgs", <<Ident("a")>>), Call("returns", <<Lit(i)>>)>>
    [] shape = "withArgs(b).returns" -> <<Call("withArgs", <<Ident("b")>>), Call("returns", <<Lit(i)>>)>>
    [] shape = "withArgs(a)" -> <<Call("withArgs", <<Ident("a")>>)>>
    [] shape = "resolves" -> <<Call("resolves", <<Lit(i)>>)>>
    [] shape = "withArgs(a,undefined).returns" ->
         <<Call("withArgs", <<Ident("a"), Undefined>>), Call("returns", <<Lit(i)>>)>>
    [] shape = "withArgs().returns" -> <<Call("withArgs", <<>>), Call("returns", <<Lit(i)>>)>>
    [] shape = "withArgs(s).returns" -> <<Call("withArgs", <<Ident("s")>>), Call("returns", <<Lit(i)>>)>>
    [] OTHER -> <<Call("calledOnce", <<>>)>>

Tmpl(kind, var, m, shape) == [k |-> kind, v |-> var, mem |-> m, shape |-> shape]

Templates ==
  {Tmpl("stub", "s", "m", "A"), Tmpl("stub", "u", "m", "A"), Tmpl("stub", "u", "n", "A"),
   Tmpl("stub", "u", "m", ""), Tmpl("stub", "u", "m", "ns.A"), Tmpl("stub", "u", "", "A")}
  \cup {Tmpl("chain", "s", "", sh) : sh \in ChainShapes}
  \cup {Tmpl("chain", "u", "", sh) : sh \in {"returns", "resolves"}}
  \cup {Tmpl("restore", "sandBox", "", ""), Tmpl("restore", "sinon", "", "")}

InputStmt(t, i, b) ==
  CASE t.k = "stub" -> StubStmt(i, b, t.v, t.shape, t.mem)
    [] t.k = "chain" -> ChainStmt(i, b, t.v, ShapeCalls(t.shape, i))
    [] t.k = "chained" -> Stmt(i, b, "stub", "", t.shape, t.mem, ShapeCalls("returns", i), <<>>)
    [] OTHER -> RestoreStmt(i, b, t.v)

TwoTests == <<Block("it", "t1", 0), Block("it", "t2", 0)>>

BlockLayouts ==
  { TwoTests,
    <<Block("it", "t1", 0), Block("test", "t1", 0)>>,
    <<Block("beforeEach", "", 0), Block("it", "t1", 0)>>,
    <<Block("it", "t1", 0), Block("afterEach", "", 0)>>,
    <<Block("describe", "d", 0), Block("it", "t1", 1)>>,
    <<Block("test", "t1", 0), BlockOn("it", 1)>> }

\* the variables that hold a stub of the sandbox; t holds a stub made elsewhere
SandboxVars == {"s", "u"}

\* a file that parses and runs: blocks follow each other, a variable is declared
\* once per block and before the statements that use it.  The restore calls are
\* the last statements of the file, at most two.  x = <<template, block>> is
\* the statement that extends the file f.
CanExtend(f, x, bs) ==
  /\ \A i \in DOMAIN f : f[i][2] <= x[2]
  /\ (x[1].k = "chain" /\ x[1].v \in SandboxVars) =>
        \E j \in DOMAIN f : /\ f[j][1].k = "stub"
                            /\ f[j][1].v = x[1].v
                            /\ f[j][2] \in Ancestors(bs, x[2])
  /\ x[1].k = "stub" =>
        \A j \in DOMAIN f : ~(f[j][1].k = "stub" /\ f[j][1].v = x[1].v /\ f[j][2] = x[2])
  /\ x[1].k # "restore" => \A j \in DOMAIN f : f[j][1].k # "restore"
  /\ x[1].k = "restore" => Cardinality({j \in DOMAIN f : f[j][1].k = "restore"}) < 2

RECURSIVE FilesOfLen(_, _)
FilesOfLen(bs, k) ==
  IF k = 0 THEN {<<>>}
  ELSE {Append(p[1], p[2]) :
          p \in {q \in FilesOfLen(bs, k - 1) \X (Templates \X (1..Len(bs))) :
                   CanExtend(q[1], q[2], bs)}}

\* a file whose second block is empty is taken once, with the layout TwoTests
Canonical(f, bs) == bs # TwoTests => \E i \in DOMAIN f : f[i][2] = 2

\* the bodies of at most n statements
Bodies(bs, n) ==
  {[i \in DOMAIN f |-> InputStmt(f[i][1], i, f[i][2])] :
     f \in {g \in UNION {FilesOfLen(bs, k) : k \in 0..n} : Canonical(g, bs)}}

SinonImport == ImportDecl("sinon", <<"sinon">>)

ImportInputs ==
  { <<>>,
    <<SinonImport>>,
    <<SinonImport, ImportDecl("node:test", <<"describe", "it">>)>>,
    <<SinonImport, ImportDecl("node:test", <<"it", "mock">>)>>,
    <<SinonImport, ImportDecl("node:test", <<"it", "mocks">>)>> }

Init ==
  /\ pc = "imports"
  /\ run = 1
  /\ imports \in ImportInputs
  /\ sandboxDecl = hasSinonImport(imports)
  /\ blocks \in BlockLayouts
  /\ body \in Bodies(blocks, MaxStmts - Len(imports))
  /\ src = body
  /\ stubChains = <<>>
  /\ work = <<>>
  /\ out1 = NoText
  /\ variant = 0
  /\ filePath = <<>>
  /\ hookCalls = {}
  /\ otherIdents = {}
  /\ tree = <<>>
  /\ input = <<>>
  /\ lead = <<>>

Next ==
  \/ NormalizeImports
  \/ RemoveCreateSandbox
  \/ CollectStub
  \/ FindStubsToReplace
  \/ ReplaceStub
  \/ FindRestores
  \/ ReplaceRestore
  \/ Return
  \/ Rerun

Spec == Init /\ [][Next]_vars

(***************************************************************************)
(* A second family of input files, for the forms a sandBox.stub call and   *)
(* the statements around it take: the call as a declaration, as an         *)
(* expression statement, with a call chained on it, with a member          *)
(* expression as member argument; matchers of no and of two arguments; a   *)
(* statement on another stub that passes the variable as an argument; a    *)
(* callback nested in afterEach.                                           *)
(***************************************************************************)
FormTemplates ==
  {Tmpl("stub", "s", "m", "A"), Tmpl("stub", "s", "K.m", "A"),
   Tmpl("stub", "", "m", "A"), Tmpl("chained", "", "m", "A")}
  \cup {Tmpl("chain", "s", "", sh) :
           sh \in {"returns", "withArgs(a).returns", "withArgs(a,undefined).returns",
                   "withArgs().returns", "calledOnce"}}
  \cup {Tmpl("chain", "t", "", "withArgs(s).returns")}
  \cup {Tmpl("restore", "sandBox", "", ""), Tmpl("restore", "sinon", "", "")}

FormLayouts ==
  { TwoTests,
    <<Block("it", "t1", 0), Block("afterEach", "", 0)>>,
    <<Block("afterEach", "", 0), Block("forEach", "", 1)>>,
    <<Block("beforeEach", "", 0), Block("beforeEach", "", 0)>> }

RECURSIVE FormFilesOfLen(_, _)
FormFilesOfLen(bs, k) ==
  IF k = 0 THEN {<<>>}
  ELSE {Append(p[1], p[2]) :
          p \in {q \in FormFilesOfLen(bs, k - 1) \X (FormTemplates \X (1..Len(bs))) :
                   CanExtend(q[1], q[2], bs)}}

FormBodies(bs, n) ==
  {[i \in DOMAIN f |-> InputStmt(f[i][1], i, f[i][2])] :
     f \in UNION {FormFilesOfLen(bs, k) : k \in 0..n}}

FormInit ==
  /\ pc = "imports"
  /\ run = 1
  /\ imports = <<SinonImport>>
  /\ sandboxDecl = TRUE
  /\ blocks \in FormLayouts
  /\ body \in FormBodies(blocks, MaxStmts - Len(imports))
  /\ src = body
  /\ stubChains = <<>>
  /\ work = <<>>
  /\ out1 = NoText
  /\ variant = 0
  /\ filePath = <<>>
  /\ hookCalls = {}
  /\ otherIdents = {}
  /\ tree = <<>>
  /\ input = <<>>
  /\ lead = <<>>

FormSpec == FormInit /\ [][Next]_vars

(***************************************************************************)
(* What the synthesized function (...args) => { impl } returns when it is  *)
(* called with args: the statements run in order, an if statement is taken *)
(* when args.length > 0 and every compared position is strictly equal; a   *)
(* position past the end of args reads as undefined.                       *)
(***************************************************************************)
ArgAt(args, j) == IF j <= Len(args) THEN args[j] ELSE Undefined

IfTaken(stmt, args) ==
  /\ Len(args) > 0
  /\ \A j \in DOMAIN stmt.eq : ArgAt(args, j) = stmt.eq[j]

RECURSIVE EvalImpl(_, _)
EvalImpl(im, args) ==
  IF im = <<>> THEN Undefined
  ELSE IF Head(im).t = "return" \/ IfTaken(Head(im), args) THEN Head(im).value
  ELSE EvalImpl(Tail(im), args)

\* the argument lists the synthesized functions are called with
CallArgs ==
  { <<>>, <<Ident("a")>>, <<Ident("b")>>, <<Ident("a"), Ident("b")>>, <<Ident("b"), Ident("a")>> }

(***************************************************************************)
(* Vocabulary of the claims about the sinon migration.                     *)
(***************************************************************************)
MockSites == {i \in DOMAIN body : body[i].k = "mock"}

MockKey(st) == Key(st.cls, st.mem, TestName(st.blk))

\* an entry with an argument matcher, and whether a call satisfies it
HasMatcher(chain) == chain.hasArgs /\ chain.args # <<>>

Satisfies(args, chain) ==
  /\ Len(args) >= Len(chain.args)
  /\ \A j \in DOMAIN chain.args : args[j] = chain.args[j]

\* a matcher-less entry answers every call
Accepts(chain, args) == HasMatcher(chain) => Satisfies(args, chain)

\* the result expressions of the returns / resolves statements on variable v inside
\* tests named t, in source order
IsResultStmt(st, v, t) ==
  /\ st.k = "chain"
  /\ st.v = v
  /\ TestName(st.blk) = t
  /\ st.calls[Len(st.calls)].name \in {"returns", "resolves"}

ResultOf(st) ==
  LET last == st.calls[Len(st.calls)]
  IN IF last.name = "resolves" THEN PromiseResolve(last.args[1]) ELSE last.args[1]

ResultsInSource(v, t) ==
  LET sel == SelectSeq(src, LAMBDA st : IsResultStmt(st, v, t))
  IN [i \in DOMAIN sel |-> ResultOf(sel[i])]

\* the statements of a synthesized function that come from entries (all but the
\* return undefined fallback)
Branches(im) == SelectSeq(im, LAMBDA b : b.value # Undefined)

BranchValues(im) == [i \in DOMAIN Branches(im) |-> Branches(im)[i].value]

IsExample3 ==
  /\ Len(src) = 3
  /\ \E st, w, r \in DOMAIN src :
        /\ src[st].k = "stub"
        /\ src[w].k = "chain" /\ src[w].v = src[st].v /\ src[w].blk = src[st].blk
        /\ src[r].k = "chain" /\ src[r].v = src[st].v /\ src[r].blk = src[st].blk
        /\ Len(src[w].calls) = 2
        /\ src[w].calls[1] = Call("withArgs", <<Ident("a")>>)
        /\ src[w].calls[2].name = "returns"
        /\ Len(src[r].calls) = 1
        /\ src[r].calls[1].name = "returns"

C2_Example3 ==
  (run = 1 /\ pc = "done" /\ IsExample3) =>
    /\ Len(body) = 1
    /\ body[1].k = "mock"
    /\ \E st, w, r \in DOMAIN src :
          /\ src[st].k = "stub" /\ body[1].id = src[st].id
          /\ Len(src[w].calls) = 2 /\ Len(src[r].calls) = 1
          /\ \A args \in CallArgs :
                EvalImpl(body[1].impl, args) =
                  IF Len(args) > 0 /\ args[1] = Ident("a")
                  THEN src[w].calls[2].args[1]
                  ELSE src[r].calls[1].args[1]

(***************************************************************************)
(* C3  Isolation across test cases.  Every entry of an installed           *)
(* replacement comes from a statement inside a test of the replacement's   *)
(* own test name: no entry from a test with another name string appears in *)
(* it, also when both tests use the same stub variable name.               *)
(***************************************************************************)
C3_TestIsolation ==
  run = 1 =>
    \A i \in MockSites : \A p \in DOMAIN Branches(body[i].impl) :
      TestName(src[Branches(body[i].impl)[p].value.v].blk) = TestName(body[i].blk)

\* two replacements of the same class and member in tests of different names, both
\* with entries
C3_Witness ==
  /\ run = 1
  /\ \E i, j \in MockSites :
        /\ body[i].cls = body[j].cls
        /\ body[i].mem = body[j].mem
        /\ TestName(body[i].blk) # TestName(body[j].blk)
        /\ blocks[body[i].blk].callee \in {"it", "test"}
        /\ blocks[body[j].blk].callee \in {"it", "test"}
        /\ Branches(body[i].impl) # <<>>
        /\ Branches(body[j].impl) # <<>>

(***************************************************************************)
(* C4  Exactly one site per key.  When the transform is finished no two    *)
(* statements hold the replacement of the same key (class, member, test    *)
(* name).                                                                  *)
(***************************************************************************)
C4_OneSitePerKey ==
  (run = 1 /\ pc = "done") =>
    \A i, j \in MockSites : MockKey(body[i]) = MockKey(body[j]) => i = j

NoDuplicateImports(imps) ==
  /\ \A i, j \in DOMAIN imps : imps[i].source = imps[j].source => i = j
  /\ \A i \in DOMAIN imps : \A p, q \in DOMAIN imps[i].specifiers :
        imps[i].specifiers[p] = imps[i].specifiers[q] => p = q

C7_ImportsUnique == pc = "done" => NoDuplicateImports(imports)


\* ---- further claims on the sinon migration ----

CallNames(st) == {st.calls[i].name : i \in DOMAIN st.calls}

\* a configuration statement with a withArgs matcher and no returns / resolves step
IsPartial(st) ==
  /\ st.k = "chain"
  /\ "withArgs" \in CallNames(st)
  /\ CallNames(st) \cap {"returns", "resolves"} = {}

\* C14: partial configuration chain. A configuration statement that has a withArgs
\* matcher and no returns / resolves step contributes nothing: every conditional
\* branch of an installed replacement tests the matcher of the statement that
\* supplied the branch's result, and when the transform is finished the partial
\* statement is still in the file.
C14_PartialChainSkipped ==
  run = 1 =>
    /\ \A i \in MockSites : \A p \in DOMAIN body[i].impl :
         body[i].impl[p].t = "if" =>
           \E c \in DOMAIN src[body[i].impl[p].value.v].calls :
              src[body[i].impl[p].value.v].calls[c] = Call("withArgs", body[i].impl[p].eq)
    /\ pc = "done" =>
         \A i \in DOMAIN src : IsPartial(src[i]) => \E j \in DOMAIN body : body[j] = src[i]

Unresolvable(st) == st.k = "stub" /\ ~Resolvable(st)

\* C15: unresolvable stub. A sandBox.stub call whose class name or member name
\* cannot be extracted is skipped by both passes: its declaration stays as it is,
\* the statements on its variable stay (when no other stub declares the same
\* variable name), and the transform does not abort.
C15_UnresolvableSkipped ==
  run = 1 =>
    /\ pc # "threw"
    /\ \A i \in DOMAIN src : Unresolvable(src[i]) =>
         /\ \E j \in DOMAIN body : body[j] = src[i]
         /\ (\A k \in DOMAIN src : (src[k].k = "stub" /\ src[k].v = src[i].v) => k = i)
              => \A k \in DOMAIN src : (src[k].k = "chain" /\ src[k].v = src[i].v)
                                          => \E j \in DOMAIN body : body[j] = src[k]

\* the results of the configuration statements that belong to a key: statements on
\* a variable declared by a stub of that key, inside tests of the key's name
EntriesOfKey(key) ==
  {ResultOf(src[k]) : k \in {n \in DOMAIN src :
      /\ src[n].k = "chain"
      /\ src[n].calls[Len(src[n].calls)].name \in {"returns", "resolves"}
      /\ TestName(src[n].blk) = key[3]
      /\ \E s \in DOMAIN src : /\ src[s].k = "stub" /\ Resolvable(src[s])
                               /\ src[s].v = src[n].v /\ StubKey(src[s]) = key}}

\* C16: discover-then-mutate. Until the chains of every sandBox.stub call have
\* been collected no statement of the tree is replaced or deleted, and every
\* installed replacement holds every entry of its key.
C16_DiscoverThenMutate ==
  run = 1 =>
    /\ pc \in {"imports", "sandbox", "collect"} => body = src
    /\ \A i \in MockSites :
         EntriesOfKey(MockKey(body[i])) \subseteq Range(BranchValues(body[i].impl))

\* the declaration a configuration statement configures: the stub of its variable
\* in its block or an enclosing block
Declarations(c) ==
  {s \in 1 .. c - 1 : /\ src[s].k = "stub" /\ src[s].v = src[c].v
                      /\ src[s].blk \in Ancestors(blocks, src[c].blk)}

\* the nearest one: the last declaration of the variable before the statement
OwnStubs(c) == {s \in Declarations(c) : \A d \in Declarations(c) : d <= s}

\* C17: delete-after-install. Whenever a configuration statement has been deleted,
\* the replacement has been installed at its own stub declaration.
C17_DeleteAfterInstall ==
  run = 1 =>
    \A c \in DOMAIN src :
      (src[c].k = "chain" /\ ~\E j \in DOMAIN body : body[j].id = src[c].id)
        => \A s \in OwnStubs(c) : \E j \in DOMAIN body : body[j].id = src[s].id /\ body[j].k = "mock"

IsFallback(b) == b.t = "return" /\ b.value = Undefined

\* C18: fall-through structure. In every synthesized function with entries the
\* conditional branches come before every unconditional return, and the
\* return undefined fallback is there exactly when every entry had a matcher.
C18_FallThrough ==
  run = 1 =>
    \A i \in MockSites :
      LET im == body[i].impl
      IN im # <<>> =>
           /\ \A p, q \in DOMAIN im : (im[p].t = "if" /\ im[q].t = "return") => p < q
           /\ (\E p \in DOMAIN im : IsFallback(im[p]))
                <=> (\A p \in DOMAIN im : ~IsFallback(im[p]) => im[p].t = "if")

RECURSIVE LiteralTestName(_, _)
\* the walk up to the nearest it / test call whose first argument is a string literal
LiteralTestName(bs, b) ==
  IF b = 0 THEN ""
  ELSE IF bs[b].callee \in {"it", "test"} /\ bs[b].literal THEN bs[b].name
  ELSE LiteralTestName(bs, bs[b].parent)

\* C19: test-name resolution. The test name in every key the first pass stores is
\* the string of the nearest enclosing it / test call whose first argument is a
\* string literal, '' when there is none.
C19_TestNameResolution ==
  \A key \in DOMAIN stubChains :
    \E s \in DOMAIN src :
       /\ src[s].k = "stub"
       /\ key = Key(src[s].cls, src[s].mem, LiteralTestName(blocks, src[s].blk))

\* ---- claims on the forms of the stub call and the statements around it ----

\* a withArgs / returns / resolves statement made on variable v
IsConfigOn(st, v) ==
  /\ st.k = "chain"
  /\ st.v = v
  /\ CallNames(st) \cap {"withArgs", "returns", "resolves"} # {}

\* the statements of tree a that tree b no longer holds
RemovedFrom(a, b) == {i \in DOMAIN a : \A j \in DOMAIN b : b[j].id # a[i].id}

\* C21: only contributing statements are deleted. Every statement that the
\* replacement of one sandBox.stub call removes is a withArgs / returns / resolves
\* statement on the variable that call declares, and that call is the statement's
\* own declaration (the nearest one in its block or an enclosing block): no
\* statement on a same-named variable of another test or scope, and no statement
\* that only passes the variable as an argument to another call chain, is removed.
C21_OnlyContributingDeleted ==
  [][(run = 1 /\ pc = "replace" /\ work # <<>>) =>
       \A i \in RemovedFrom(body, body') :
          /\ IsConfigOn(body[i], StmtById(src, Head(work)).v)
          /\ \E d \in OwnStubs(body[i].id) : src[d].id = Head(work)]_vars

\* C22: replacement site. When a sandBox.stub call of the tree is replaced (a
\* declaration  const s = sandBox.stub(..), an expression statement
\* sandBox.stub(..);  or a call with configuration chained on it), the
\* mock.method statement stands where the statement of that call stood, and
\* every other statement of the same block is still there afterwards, the
\* configuration statements on the declared variable apart.
C22_ReplacementSite ==
  [][(run = 1 /\ pc = "replace" /\ work # <<>> /\ pc' = "replace"
      /\ HasObject(StmtById(src, Head(work)))
      /\ \E i \in DOMAIN body : body[i].id = Head(work)) =>
       LET st == StmtById(src, Head(work))
       IN /\ \E j \in DOMAIN body' : body'[j].id = st.id /\ body'[j].k = "mock"
          /\ \A i \in DOMAIN body :
               (body[i].blk = st.blk /\ body[i].id # st.id /\ ~IsConfigOn(body[i], st.v))
                 => \E j \in DOMAIN body' : body'[j] = body[i]]_vars

\* C23: branch condition. In every installed replacement the statement emitted for
\* an entry with n >= 1 matcher arguments is a conditional branch that compares the
\* positions 0..n-1 with the matcher values in order, and a call takes the branch
\* exactly when it supplies at least n arguments and every position matches; an
\* entry whose withArgs has no argument, or that has no withArgs, is emitted as an
\* unconditional return.
C23_BranchCondition ==
  run = 1 =>
    \A i \in MockSites :
      LET im == body[i].impl
          chains == currentTestChains(MockKey(body[i]))
      IN \A p \in DOMAIN chains :
           /\ p \in DOMAIN im
           /\ IF HasMatcher(chains[p])
              THEN /\ im[p].t = "if"
                   /\ im[p].eq = chains[p].args
                   /\ \A args \in CallArgs :
                        IfTaken(im[p], args) <=> Satisfies(args, chains[p])
              ELSE im[p].t = "return"

\* the mock.reset() statements that stand directly in block a
ResetsIn(seq, a) == {j \in DOMAIN seq : seq[j].k = "reset" /\ seq[j].blk = a}

\* C28: restore handling. When the transform is finished no sandBox.restore() or
\* sinon.restore() statement remains; every such statement outside an afterEach
\* callback has become a mock.reset() statement at its place; and an afterEach
\* callback that held one or more of them as direct statements holds exactly one
\* mock.reset() statement.
C28_RestoreHandling ==
  (run = 1 /\ pc = "done") =>
    /\ \A j \in DOMAIN body : ~IsRestoreCall(body[j])
    /\ \A i \in DOMAIN src :
         IsRestoreCall(src[i]) =>
           IF AfterEachOf(src[i].blk) = {}
           THEN \E j \in DOMAIN body : body[j] = ResetStmt(src[i].id, src[i].blk)
           ELSE blocks[src[i].blk].callee = "afterEach"
                  => Cardinality(ResetsIn(body, src[i].blk)) = 1

\* C29: key agreement between the passes. For every sandBox.stub call whose key
\* the first pass has stored, the second pass computes the same key (class, member
\* and test name), whatever the form of the member argument, so the replacement
\* installed for it has at least one entry.
C29_KeyAgreement ==
  run = 1 =>
    \A i \in DOMAIN src :
      (src[i].k = "stub" /\ Resolvable(src[i]) /\ StubKey(src[i]) \in DOMAIN stubChains) =>
        /\ ReplaceKey(src[i]) = StubKey(src[i])
        /\ \A j \in DOMAIN body :
             (body[j].id = src[i].id /\ body[j].k = "mock") => body[j].impl # <<>>

RECURSIVE TestNode(_, _)
\* the nearest enclosing it / test call, 0 when there is none
TestNode(bs, b) ==
  IF b = 0 THEN 0
  ELSE IF bs[b].callee \in {"it", "test"} THEN b
  ELSE TestNode(bs, bs[b].parent)

RECURSIVE HookNode(_, _)
\* outside the tests: the outermost enclosing callback that is no describe group,
\* 0 when there is none
HookNode(bs, b) ==
  IF b = 0 THEN 0
  ELSE IF HookNode(bs, bs[b].parent) # 0 THEN HookNode(bs, bs[b].parent)
  ELSE IF bs[b].callee = "describe" THEN 0
  ELSE b

\* the scope of a statement: its enclosing it / test call, outside the tests the
\* hook callback it stands in, and else its describe group
ScopeOf(b) ==
  IF TestNode(blocks, b) # 0 THEN TestNode(blocks, b)
  ELSE IF HookNode(blocks, b) # 0 THEN HookNode(blocks, b)
  ELSE b

\* C30: same-name test blocks. Every entry of an installed replacement comes from
\* a statement inside the same it / test call as the replaced stub (outside the
\* tests: inside the same callback): a test block of the same name string, or
\* another hook callback, contributes no entry.
C30_SameNameBlocks ==
  run = 1 =>
    \A i \in MockSites : \A p \in DOMAIN Branches(body[i].impl) :
      ScopeOf(src[Branches(body[i].impl)[p].value.v].blk) = ScopeOf(body[i].blk)

\* ======================================================================
\* The should/mocha -> node:assert migration, src/unnamed/part_000: two variants
\* of one transform, lines 1-540 (variant 1) and lines 542-1522 (variant 2).
\* A file is its leading import declarations, the lifecycle hooks it calls, the
\* other identifiers it holds, and its expression statements (the last one, and
\* those written before it).

MaxDepth == 1

MaxHooks == 2

Node(tag, name, args) == [tag |-> tag, name |-> name, args |-> args]

Identifier(n) == Node("Identifier", n, <<>>)

Literal(v) == Node("Literal", v, <<>>)

\* the value of a JavaScript expression that evaluates to undefined where the
\* code expects a node
Missing == Node("undefined", "", <<>>)

\* An expression is its innermost identifier and the member accesses and calls
\* applied to it, innermost first: x.should.not.equal(v) is x, .should, .not,
\* .equal, (v). Node k is the expression made of the first k links.
MemberLink(n) == [t |-> "prop", name |-> n, args |-> <<>>]

CallLink(as) == [t |-> "call", name |-> "", args |-> as]

Expr(root, links) == [root |-> root, links |-> links]

RECURSIVE NodeAt(_, _)
NodeAt(e, k) ==
  IF k < 0 THEN Missing
  ELSE IF k = 0 THEN e.root
  ELSE IF e.links[k].t = "prop"
       THEN Node("MemberExpression", e.links[k].name, <<NodeAt(e, k - 1)>>)
       ELSE Node("CallExpression", "", <<NodeAt(e, k - 1)>> \o e.links[k].args)

RECURSIVE HasMissing(_)
HasMissing(n) == n = Missing \/ \E i \in DOMAIN n.args : HasMissing(n.args[i])

Arg(as, i) == IF i <= Len(as) THEN as[i] ELSE Missing

Max(S) == CHOOSE c \in S : \A d \in S : d <= c

IsMemberAt(e, k) == k >= 1 /\ k <= Len(e.links) /\ e.links[k].t = "prop"

IsCallAt(e, k) == k >= 1 /\ k <= Len(e.links) /\ e.links[k].t = "call"

IsIdentifierAt(e, k, n) == k = 0 /\ e.root.tag = "Identifier" /\ e.root.name = n

NameAt(e, k) == IF IsMemberAt(e, k) THEN e.links[k].name ELSE ""

\* while (j.MemberExpression.check(current)) current = current.object: the member
\* accesses walked from node k down, and the node the walk stops at
RECURSIVE RunStart(_, _)
RunStart(e, k) ==
  IF ~IsMemberAt(e, k) THEN k + 1
  ELSE IF IsMemberAt(e, k - 1) THEN RunStart(e, k - 1) ELSE k

Run(e, k) == RunStart(e, k) .. k

RunNames(e, k) == {e.links[j].name : j \in Run(e, k)}

RECURSIVE RunEnd(_, _)
RunEnd(e, k) == IF IsMemberAt(e, k + 1) THEN RunEnd(e, k + 1) ELSE k

\* the first .should met on the walk down from node k (0: none)
NearestShould(e, k) ==
  LET S == {j \in Run(e, k) : e.links[j].name = "should"}
  IN IF S = {} THEN 0 ELSE Max(S)

\* a .not met on the walk down from node k before the walk breaks at .should
NotBeforeShould(e, k) ==
  \E j \in Run(e, k) : j > NearestShould(e, k) /\ e.links[j].name = "not"

\* call expressions whose callee is a member expression; c - 1 is the callee and
\* c - 2 the callee's object
Calls(e) == {c \in 2 .. Len(e.links) : IsCallAt(e, c) /\ IsMemberAt(e, c - 1)}

Members(e) == {k \in 1 .. Len(e.links) : IsMemberAt(e, k)}

\* what one pass leaves: the statement, whether ensureLodashImport was called,
\* and whether a handler threw
Pass(e, lodash, threw) == [tree |-> e, lodash |-> lodash, threw |-> threw]

Same(e) == Pass(e, FALSE, FALSE)

Threw(e) == Pass(e, FALSE, TRUE)

\* j(path).replaceWith(assert.fn(args)) on node k; a builder given undefined throws
Replaced(e, k, fn, args) ==
  IF \E i \in DOMAIN args : HasMissing(args[i]) THEN Threw(e)
  ELSE Same(Expr(Identifier("assert"),
                 <<MemberLink(fn), CallLink(args)>> \o SubSeq(e.links, k + 1, Len(e.links))))

\* find(j.CallExpression).filter(..).forEach(..): paths are visited outermost
\* first, and a replaced call detaches the calls inside it
CallPass(e, Filter(_, _), Handler(_, _)) ==
  LET cs == {c \in Calls(e) : Filter(e, c)}
  IN IF cs = {} THEN Same(e) ELSE Handler(e, Max(cs))

IsStatic(e, c) == IsIdentifierAt(e, c - 2, "should")

InShouldChain(e, c) == "should" \in RunNames(e, c - 2)

ShouldSubject(e, k) == NodeAt(e, NearestShould(e, k) - 1)

\* the slice taken from 0 whatever firstArg is: [firstArg, ...arguments]
StaticArgsUnsliced(e, c) ==
  IF e.links[c].args = <<>> THEN <<Missing>> ELSE <<e.links[c].args[1]>> \o e.links[c].args

\* [firstArg, ...arguments.slice(firstArg === arguments[0] ? 1 : 0)]
StaticArgs(e, c) == IF e.links[c].args = <<>> THEN <<Missing>> ELSE e.links[c].args

\* variant 1, lines 118-184
EqualFilter1(e, c) ==
  /\ NameAt(e, c - 1) = "equal"
  /\ \/ IsStatic(e, c)
     \/ NameAt(e, c - 2) = "should"
     \/ NameAt(e, c - 2) = "not" /\ NameAt(e, c - 3) = "should"

EqualHandler1(e, c) ==
  IF IsStatic(e, c) THEN Replaced(e, c, "equal", StaticArgs(e, c))
  ELSE IF NameAt(e, c - 2) = "should"
       THEN Replaced(e, c, "equal", <<NodeAt(e, c - 3)>> \o e.links[c].args)
       ELSE Replaced(e, c, "notEqual", <<NodeAt(e, c - 4)>> \o e.links[c].args)

\* variant 2, lines 697-760 (equal) and 762-823 (deepEqual, eql)
EqualityFilter2(e, c, names) ==
  NameAt(e, c - 1) \in names /\ (IsStatic(e, c) \/ InShouldChain(e, c))

EqualityHandler2(e, c, positive, negated) ==
  IF IsStatic(e, c) THEN Replaced(e, c, positive, StaticArgs(e, c))
  ELSE Replaced(e, c, IF NotBeforeShould(e, c - 2) THEN negated ELSE positive,
                <<ShouldSubject(e, c - 2)>> \o e.links[c].args)

EqualFilter2(e, c) == EqualityFilter2(e, c, {"equal"})

EqualHandler2(e, c) == EqualityHandler2(e, c, "strictEqual", "notStrictEqual")

DeepEqualFilter2(e, c) == EqualityFilter2(e, c, {"deepEqual", "eql"})

DeepEqualHandler2(e, c) == EqualityHandler2(e, c, "deepStrictEqual", "notDeepStrictEqual")

\* variant 1, lines 186-227
DeepEqualFilter1(e, c) ==
  NameAt(e, c - 1) \in {"deepEqual", "eql"} /\ (IsStatic(e, c) \/ NameAt(e, c - 2) = "should")

DeepEqualHandler1(e, c) ==
  IF IsStatic(e, c) THEN Replaced(e, c, "deepStrictEqual", StaticArgs(e, c))
  ELSE Replaced(e, c, "deepStrictEqual", <<NodeAt(e, c - 3)>> \o e.links[c].args)

\* lines 229-258 and 825-854: x.should.be.true()
BooleanNames(v) == IF v = 1 THEN {"true", "false"} ELSE {"true", "false", "True", "False"}

BooleanFilter1(e, c) ==
  NameAt(e, c - 1) \in BooleanNames(1) /\ NameAt(e, c - 2) = "be" /\ NameAt(e, c - 3) = "should"

BooleanFilter2(e, c) ==
  NameAt(e, c - 1) \in BooleanNames(2) /\ NameAt(e, c - 2) = "be" /\ NameAt(e, c - 3) = "should"

BooleanHandler(e, c) ==
  Replaced(e, c, "strictEqual",
           <<NodeAt(e, c - 4),
             Literal(IF NameAt(e, c - 1) \in {"true", "True"} THEN "true" ELSE "false")>>)

\* lines 856-899
StringFilter(e, c) == NameAt(e, c - 1) = "String" /\ InShouldChain(e, c)

StringHandler(e, c) ==
  Replaced(e, c, "strictEqual",
           <<Node("UnaryExpression", "typeof", <<ShouldSubject(e, c - 2)>>), Literal("string")>>)

\* lines 1158-1217
ThrowFilter(e, c) == NameAt(e, c - 1) \in {"throw", "throwError"} /\ InShouldChain(e, c)

ThrowHandler(e, c) ==
  Replaced(e, c, IF NotBeforeShould(e, c - 2) THEN "doesNotThrow" ELSE "throws",
           <<ShouldSubject(e, c - 2)>> \o
             (IF e.links[c].args = <<>> THEN <<>> ELSE <<e.links[c].args[1]>>))

\* should(x) as the callee's object
IsShouldCall(e, k) == k = 1 /\ IsCallAt(e, 1) /\ IsIdentifierAt(e, 0, "should")

\* lines 1219-1249: errorMessage.value throws when there is no argument
ShouldThrowErrorFilter(e, c) == NameAt(e, c - 1) = "throwError" /\ IsShouldCall(e, c - 2)

ShouldThrowErrorHandler(e, c) ==
  IF e.links[c].args = <<>> THEN Threw(e)
  ELSE Replaced(e, c, "throws",
         <<Arg(e.links[1].args, 1),
           Node("Literal", "TypeError: ${errorMessage.value}",
                <<IF e.links[c].args[1].tag = "Literal"
                  THEN e.links[c].args[1] ELSE Identifier("undefined")>>)>>)

hasOwnPropertyCall(args) == Node("CallExpression", "Object.prototype.hasOwnProperty.call", args)

RECURSIVE combinedCheck(_, _)
combinedCheck(obj, elements) ==
  IF Len(elements) = 1 THEN hasOwnPropertyCall(<<obj, elements[1]>>)
  ELSE Node("LogicalExpression", "&&",
            <<combinedCheck(obj, SubSeq(elements, 1, Len(elements) - 1)),
              hasOwnPropertyCall(<<obj, elements[Len(elements)]>>)>>)

\* lines 1251-1337: the object is callee.object.object.object, whatever the chain
PropertiesFilter(e, c) == NameAt(e, c - 1) = "properties" /\ InShouldChain(e, c)

PropertiesHandler(e, c) ==
  LET obj == NodeAt(e, c - 4)
      props == Arg(e.links[c].args, 1)
  IN IF props.tag = "ArrayExpression"
     THEN IF props.args = <<>> THEN Threw(e)
          ELSE Replaced(e, c, "ok", <<combinedCheck(obj, props.args)>>)
     ELSE Replaced(e, c, "deepStrictEqual",
                   <<Node("CallExpression", "Object.fromEntries(Object.keys(..).map(key => [key, ..[key]]))",
                          <<props, obj>>),
                     props>>)

\* the ladder tested from its last branch to its first
PatternOrderReversed(v) ==
  IF v = 1
  THEN <<"property", "instanceof", "greaterThanOrEqual", "hasOwnProperty", "empty",
         "fulfilled", "rejectedWith">>
  ELSE <<"property", "propertyByPath", "instanceof", "startWith", "within",
         "greaterThanOrEqual", "hasOwnProperty", "empty", "fulfilled", "rejectedWith">>

\* lines 260-411 and 901-1156: the if / else-if ladder over the property names of
\* a member expression, in the order the code tests them
PatternOrder(v) ==
  IF v = 1
  THEN <<"rejectedWith", "fulfilled", "empty", "hasOwnProperty", "greaterThanOrEqual",
         "instanceof", "property">>
  ELSE <<"rejectedWith", "fulfilled", "empty", "hasOwnProperty", "greaterThanOrEqual",
         "within", "startWith", "instanceof", "propertyByPath", "property">>

PatternBranch(v, names) ==
  LET hits == SelectSeq(PatternOrder(v), LAMBDA b : b \in names)
  IN IF hits = <<>> THEN "none" ELSE Head(hits)

PatternFilter(e, k) == "should" \in RunNames(e, k)

\* the branches that call ensureLodashImport
UsesLodash(b) == b \in {"within", "startWith", "propertyByPath"}

\* the branches that read path.parent.node.arguments, a TypeError when the parent
\* is no call
ReadsArguments(b) == b \notin {"none", "fulfilled", "empty"}

PatternHandler(v, e, k) ==
  LET names == RunNames(e, k)
      b == PatternBranch(v, names)
      originalValue == NodeAt(e, RunStart(e, k) - 1)
      p == k + 1
      args == IF IsCallAt(e, p) THEN e.links[p].args ELSE <<>>
  IN IF b = "none" THEN Same(e)
     ELSE IF ReadsArguments(b) /\ ~IsCallAt(e, p) THEN Threw(e)
     ELSE CASE b = "rejectedWith" ->
                 Replaced(e, p, "rejects",
                          <<originalValue, Node("ObjectExpression", "message", <<Arg(args, 1)>>)>>)
            [] b = "fulfilled" ->
                 Replaced(e, p, "doesNotReject",
                          <<Node("ArrowFunctionExpression", "return", <<originalValue>>)>>)
            [] b = "empty" ->
                 Replaced(e, p, IF "not" \in names THEN "notEqual" ELSE "equal",
                          <<Node("MemberExpression", "length", <<originalValue>>), Literal("0")>>)
            [] b = "hasOwnProperty" ->
                 Replaced(e, p, "ok", <<hasOwnPropertyCall(<<originalValue>> \o args)>>)
            [] b = "greaterThanOrEqual" ->
                 Replaced(e, p, "ok",
                          <<Node("BinaryExpression", ">=",
                                 <<IF v = 1 THEN originalValue ELSE ShouldSubject(e, k),
                                   Arg(args, 1)>>)>>)
            [] b = "within" ->
                 Replaced(e, p, "ok",
                          <<Node("CallExpression", "_.inRange", <<ShouldSubject(e, k)>> \o args)>>)
            [] b = "startWith" ->
                 Replaced(e, p, "ok",
                          <<Node("CallExpression", "_.startsWith", <<originalValue, Arg(args, 1)>>)>>)
            [] b = "instanceof" ->
                 Replaced(e, p, "ok",
                          <<Node("BinaryExpression", "instanceof", <<originalValue, Arg(args, 1)>>)>>)
            [] b = "propertyByPath" ->
                 LET get == Node("CallExpression", "_.get",
                                 <<originalValue, Node("ArrayExpression", "", args)>>)
                 IN IF NameAt(e, p + 1) = "greaterThan" /\ IsCallAt(e, p + 2)
                    THEN Replaced(e, p + 2, "ok",
                                  <<Node("BinaryExpression", ">",
                                         <<get, Arg(e.links[p + 2].args, 1)>>)>>)
                    ELSE Replaced(e, p, "ok", <<get>>)
            [] b = "property" ->
                 IF v = 2 /\ Len(args) = 2
                 THEN Replaced(e, p, "strictEqual",
                               <<Node("MemberExpression", "[]", <<originalValue, args[1]>>), args[2]>>)
                 ELSE Replaced(e, p, "ok", <<hasOwnPropertyCall(<<originalValue>> \o args)>>)

\* find(j.MemberExpression).filter(..).forEach(..): the outermost member
\* expression whose names reach a branch replaces its parent; the handler still
\* runs on the member expressions inside the replaced node, where it changes
\* nothing of the tree but can call ensureLodashImport and can throw
PatternPass(v, e) ==
  LET ms == {k \in Members(e) : PatternFilter(e, k) /\ PatternBranch(v, RunNames(e, k)) # "none"}
  IN IF ms = {} THEN Same(e)
     ELSE LET first == PatternHandler(v, e, Max(ms))
          IN Pass(first.tree,
                  \E k \in ms : UsesLodash(PatternBranch(v, RunNames(e, k))),
                  \E k \in ms : PatternHandler(v, e, k).threw)

\* lines 1339-1393: the member expression .Null; the whole member chain above it
\* is replaced, a call of that chain is not
NullFilter(e, k) == NameAt(e, k) = "Null" /\ "should" \in RunNames(e, k)

NullPass(e) ==
  LET ms == {k \in Members(e) : NullFilter(e, k)}
  IN IF ms = {} THEN Same(e)
     ELSE LET k == Max(ms)
          IN Replaced(e, RunEnd(e, k),
                      IF "not" \in RunNames(e, k) THEN "notStrictEqual" ELSE "strictEqual",
                      <<ShouldSubject(e, k), Literal("null")>>)

\* lines 413-453 and 1395-1435: should.exist(x), should.not.exist(x)
ExistFilter(e, c) ==
  /\ NameAt(e, c - 1) = "exist"
  /\ \/ IsStatic(e, c)
     \/ NameAt(e, c - 2) = "not" /\ IsIdentifierAt(e, c - 3, "should")

\* the two calls of lines 1425-1431 exchanged
ExistHandlerSwapped(e, c) ==
  IF IsMemberAt(e, c - 2)
  THEN Replaced(e, c, "ok", <<Arg(e.links[c].args, 1)>>)
  ELSE Replaced(e, c, "equal", <<Arg(e.links[c].args, 1), Identifier("undefined")>>)

ExistHandler(e, c) ==
  IF IsMemberAt(e, c - 2)
  THEN Replaced(e, c, "equal", <<Arg(e.links[c].args, 1), Identifier("undefined")>>)
  ELSE Replaced(e, c, "ok", <<Arg(e.links[c].args, 1)>>)

\* lines 455-496 and 1437-1478
DoesNotThrowFilter(e, c) ==
  NameAt(e, c - 1) = "doesNotThrow" /\ (IsStatic(e, c) \/ NameAt(e, c - 2) = "should")

DoesNotThrowHandler(e, c) ==
  IF IsStatic(e, c) THEN Replaced(e, c, "doesNotThrow", <<Arg(e.links[c].args, 1)>>)
  ELSE Replaced(e, c, "doesNotThrow", <<NodeAt(e, c - 3)>>)

\* lines 498-535 and 1480-1517: should(x).equal(y), should(x).ok()
ShouldCallFilter(e, c) == IsShouldCall(e, c - 2) /\ NameAt(e, c - 1) \in {"equal", "ok"}

ShouldCallHandler(e, c) ==
  IF NameAt(e, c - 1) = "equal"
  THEN Replaced(e, c, "strictEqual", <<Arg(e.links[1].args, 1)>> \o e.links[c].args)
  ELSE Replaced(e, c, "ok", <<Arg(e.links[1].args, 1)>>)

\* the passes of each variant, in the order of the source. The pass of lines
\* 75-116 and 654-695 is left out: it filters member expressions on their callee,
\* which no member expression has, and so never runs its handler
PassOrder(v) ==
  IF v = 1
  THEN <<"equal", "deepEqual", "boolean", "patterns", "exist", "doesNotThrow", "shouldCall">>
  ELSE <<"equal", "deepEqual", "boolean", "String", "patterns", "throw", "shouldThrowError",
         "properties", "Null", "exist", "doesNotThrow", "shouldCall">>

ApplyPass(v, p, e) ==
  CASE p = "equal" -> IF v = 1 THEN CallPass(e, EqualFilter1, EqualHandler1)
                               ELSE CallPass(e, EqualFilter2, EqualHandler2)
    [] p = "deepEqual" -> IF v = 1 THEN CallPass(e, DeepEqualFilter1, DeepEqualHandler1)
                                   ELSE CallPass(e, DeepEqualFilter2, DeepEqualHandler2)
    [] p = "boolean" -> IF v = 1 THEN CallPass(e, BooleanFilter1, BooleanHandler)
                                 ELSE CallPass(e, BooleanFilter2, BooleanHandler)
    [] p = "String" -> CallPass(e, StringFilter, StringHandler)
    [] p = "patterns" -> PatternPass(v, e)
    [] p = "throw" -> CallPass(e, ThrowFilter, ThrowHandler)
    [] p = "shouldThrowError" -> CallPass(e, ShouldThrowErrorFilter, ShouldThrowErrorHandler)
    [] p = "properties" -> CallPass(e, PropertiesFilter, PropertiesHandler)
    [] p = "Null" -> NullPass(e)
    [] p = "exist" -> CallPass(e, ExistFilter, ExistHandler)
    [] p = "doesNotThrow" -> CallPass(e, DoesNotThrowFilter, DoesNotThrowHandler)
    [] p = "shouldCall" -> CallPass(e, ShouldCallFilter, ShouldCallHandler)

AfterPass(v, p) ==
  LET i == CHOOSE n \in DOMAIN PassOrder(v) : PassOrder(v)[n] = p
  IN IF i = Len(PassOrder(v)) THEN "toSource" ELSE PassOrder(v)[i + 1]

\* ---- imports of the assertion migration ----

Hooks == {"before", "after", "beforeEach", "afterEach"}

\* Array.prototype.sort() on these names: UTF-16 code unit order
SortedNames == <<"after", "afterEach", "before", "beforeEach", "describe", "it">>

sort(names) == SelectSeq(SortedNames, LAMBDA n : n \in names)

hasImportFrom(imps, sources) ==
  \E i \in DOMAIN imps : imps[i].kind = "ImportDeclaration" /\ imps[i].source \in sources

\* lines 544-566
ensureLodashImport(imps) ==
  IF hasImportFrom(imps, {"lodash", "_"}) THEN imps
  ELSE <<ImportDecl("lodash", <<"_">>)>> \o imps

\* line 596; a path is the sequence of its segments
isInBitGoModule(path) ==
  \E i \in 1 .. Len(path) - 2 : path[i] = "modules" /\ path[i + 1] = "bitgo"

\* root.find(j.Identifier): the identifiers of the statements that are left
ExprIdentifiers(e) ==
  {e.root.name} \cup {e.links[k].name : k \in Members(e)}
    \cup UNION {{a.name : a \in {b \in Range(e.links[k].args) : b.tag = "Identifier"}} :
                  k \in DOMAIN e.links}

ImportIdentifiers(imps) == UNION {Range(imps[i].specifiers) : i \in DOMAIN imps}

\* lines 27-37 and 598-608
usedTestFunctions(imps, calls, others, e) ==
  {"describe", "it"}
    \cup (Hooks \cap (calls \cup others \cup ImportIdentifiers(imps) \cup ExprIdentifiers(e)))

\* lines 39-51 and 610-622
NodeTestStep(imps, calls, others, e) ==
  IF hasImportFrom(imps, {"node:test"}) THEN imps
  ELSE <<ImportDecl("node:test", sort(usedTestFunctions(imps, calls, others, e)))>> \o imps

\* import assert = require('assert'), built as an expression statement (639-645)
AssertRequire == [kind |-> "ExpressionStatement", source |-> "assert", specifiers |-> <<"assert">>]

\* lines 53-72 and 624-651
AssertStep(v, path, imps) ==
  IF hasImportFrom(imps, {"node:assert", "assert"}) THEN imps
  ELSE IF v = 2 /\ isInBitGoModule(path) THEN <<AssertRequire>> \o imps
  ELSE <<ImportDecl("node:assert", <<"assert">>)>> \o imps

\* lines 7-14 and 572-579
RemoveLegacyImports ==
  /\ pc = "legacy"
  /\ imports' = RemoveImports(imports, {"should", "mocha"})
  /\ pc' = "nodeTest"
  /\ UNCHANGED <<run, out1>>
  /\ UNCHANGED assertVars
  /\ UNCHANGED mockVars

AddNodeTestImport ==
  /\ pc = "nodeTest"
  /\ imports' = NodeTestStep(imports, hookCalls,
                              otherIdents \cup UNION {ExprIdentifiers(lead[i]) : i \in DOMAIN lead},
                              tree)
  /\ pc' = "assertImport"
  /\ UNCHANGED <<run, out1>>
  /\ UNCHANGED assertVars
  /\ UNCHANGED mockVars

AddAssertImport ==
  /\ pc = "assertImport"
  /\ imports' = AssertStep(variant, filePath, imports)
  /\ pc' = Head(PassOrder(variant))
  /\ UNCHANGED <<run, out1>>
  /\ UNCHANGED assertVars
  /\ UNCHANGED mockVars

\* one pass over the statements of the file: the statements it leaves, whether
\* ensureLodashImport was called and whether a handler threw
Collect(rs) ==
  Pass([i \in DOMAIN rs |-> rs[i].tree],
       \E i \in DOMAIN rs : rs[i].lodash,
       \E i \in DOMAIN rs : rs[i].threw)

PassOn(v, p, stmts) == Collect([i \in DOMAIN stmts |-> ApplyPass(v, p, stmts[i])])

\* one find / filter / forEach pass over the tree; a handler that throws ends the
\* transform without a result
RulePass(p) ==
  /\ LET r == PassOn(variant, p, lead \o <<tree>>)
     IN /\ tree' = IF r.threw THEN tree ELSE r.tree[Len(r.tree)]
        /\ lead' = IF r.threw THEN lead ELSE SubSeq(r.tree, 1, Len(r.tree) - 1)
        /\ imports' = IF r.lodash /\ ~r.threw THEN ensureLodashImport(imports) ELSE imports
        /\ pc' = IF r.threw THEN "threw" ELSE AfterPass(variant, p)
  /\ UNCHANGED <<run, out1, variant, filePath, hookCalls, otherIdents, input>>
  /\ UNCHANGED mockVars

EqualPass ==
  /\ pc = "equal"
  /\ RulePass("equal")

DeepEqualPass ==
  /\ pc = "deepEqual"
  /\ RulePass("deepEqual")

BooleanPass ==
  /\ pc = "boolean"
  /\ RulePass("boolean")

StringPass ==
  /\ pc = "String"
  /\ RulePass("String")

PatternsPass ==
  /\ pc = "patterns"
  /\ RulePass("patterns")

ThrowPass ==
  /\ pc = "throw"
  /\ RulePass("throw")

ShouldThrowErrorPass ==
  /\ pc = "shouldThrowError"
  /\ RulePass("shouldThrowError")

PropertiesPass ==
  /\ pc = "properties"
  /\ RulePass("properties")

NullRulePass ==
  /\ pc = "Null"
  /\ RulePass("Null")

ExistPass ==
  /\ pc = "exist"
  /\ RulePass("exist")

DoesNotThrowPass ==
  /\ pc = "doesNotThrow"
  /\ RulePass("doesNotThrow")

ShouldCallPass ==
  /\ pc = "shouldCall"
  /\ RulePass("shouldCall")

\* root.toSource() and j(file.source) of the assertion migration
PrintFile(imps, ld, e) == [imports |-> imps, sandboxDecl |-> FALSE, stmts |-> ld \o <<e>>]

ParseTree(text) == text.stmts[Len(text.stmts)]

ParseLead(text) == SubSeq(text.stmts, 1, Len(text.stmts) - 1)

AssertReturn ==
  /\ pc = "toSource"
  /\ pc' = "done"
  /\ out1' = IF run = 1 THEN PrintFile(imports, lead, tree) ELSE out1
  /\ UNCHANGED <<run, imports>>
  /\ UNCHANGED assertVars
  /\ UNCHANGED mockVars

\* the transform is run again on the text it returned
AssertRerun ==
  /\ pc = "done"
  /\ run = 1
  /\ variant # 0
  /\ run' = 2
  /\ imports' = ParseImports(out1)
  /\ tree' = ParseTree(out1)
  /\ lead' = ParseLead(out1)
  /\ pc' = "legacy"
  /\ UNCHANGED <<out1, variant, filePath, hookCalls, otherIdents, input>>
  /\ UNCHANGED mockVars

\* ---- input files of the assertion migration ----

ArgV == Identifier("v")

ArgW == Identifier("w")

SubjectProps == <<"b", "c", "d">>

Subjects == {[i \in 1 .. d |-> MemberLink(SubjectProps[i])] : d \in 0 .. MaxDepth}

Mids == {<<>>, <<"not">>, <<"be">>, <<"not", "be">>, <<"be", "not">>}

Called(kw, args) == <<MemberLink(kw), CallLink(args)>>

Bare(kw) == <<MemberLink(kw)>>

\* the last steps of a chain: the keywords of the two rule catalogues, with the
\* argument counts their rules read, and steps no rule knows
KeywordTails ==
  {Called("equal", <<ArgV>>), Called("deepEqual", <<ArgV>>), Called("eql", <<ArgV>>),
   Called("true", <<>>), Called("false", <<>>), Called("True", <<>>),
   Called("String", <<>>), Called("rejectedWith", <<ArgV>>),
   Called("fulfilled", <<>>), Bare("fulfilled"), Called("empty", <<>>), Bare("empty"),
   Called("hasOwnProperty", <<ArgV>>), Called("greaterThanOrEqual", <<ArgV>>),
   Called("within", <<ArgV, ArgW>>), Called("startWith", <<ArgV>>),
   Called("instanceof", <<ArgV>>), Called("propertyByPath", <<ArgV, ArgW>>),
   Called("propertyByPath", <<ArgV, ArgW>>) \o Called("greaterThan", <<Literal("0")>>),
   Called("property", <<ArgV>>), Called("property", <<ArgV, ArgW>>),
   Called("throw", <<>>), Called("throw", <<ArgV>>), Called("throwError", <<Literal("msg")>>),
   Called("properties", <<Node("ArrayExpression", "", <<ArgV, ArgW>>)>>),
   Called("properties", <<Node("ObjectExpression", "", <<ArgV>>)>>),
   Bare("Null"), Called("Null", <<>>), Called("exist", <<>>), Called("doesNotThrow", <<>>),
   Called("ok", <<>>), Called("foo", <<ArgV>>)}

Chain(subject, mid, tail) ==
  Expr(Identifier("x"),
       subject \o <<MemberLink("should")>> \o [i \in DOMAIN mid |-> MemberLink(mid[i])] \o tail)

\* should.equal(v, w) and should(v).equal(w)
StaticChains ==
  {Expr(Identifier("should"), t) :
     t \in {Called("equal", <<ArgV, ArgW>>), Called("deepEqual", <<ArgV, ArgW>>),
            Called("exist", <<ArgV>>), Bare("not") \o Called("exist", <<ArgV>>),
            Bare("not") \o Called("equal", <<ArgV, ArgW>>), Called("doesNotThrow", <<ArgV>>)}}

ShouldCallChains ==
  {Expr(Identifier("should"), <<CallLink(<<ArgV>>)>> \o t) :
     t \in {Called("equal", <<ArgW>>), Called("ok", <<>>), Called("throwError", <<Literal("msg")>>),
            Called("throwError", <<ArgW>>), Called("throwError", <<>>),
            Bare("not") \o Called("equal", <<ArgW>>)}}

\* chains whose subject has a property named like a keyword of the catalogue, as
\* x.empty.should.be.ok()
KeywordSubjectChains ==
  {Chain(<<MemberLink("empty")>>, m, t) :
     m \in {<<>>, <<"be">>}, t \in {Called("ok", <<>>), Called("foo", <<ArgV>>)}}

\* a recognized step followed by steps no rule knows, as x.should.equal(v).foo(w)
LongChains ==
  {Chain(<<>>, <<>>, Called("equal", <<ArgV>>) \o Called("foo", <<ArgW>>)),
   Chain(<<>>, <<"be">>, Called("empty", <<>>) \o Bare("and") \o Called("foo", <<ArgW>>))}

\* chains that hold two keywords of the catalogue:
\* x.should.be.empty.and.equal(v), x.should.be.empty.and.instanceof(v),
\* x.should.have.property(v).which.is.String()
EmptyAndEqual == Chain(<<>>, <<"be">>, Bare("empty") \o Bare("and") \o Called("equal", <<ArgV>>))

EmptyAndInstanceof ==
  Chain(<<>>, <<"be">>, Bare("empty") \o Bare("and") \o Called("instanceof", <<ArgV>>))

PropertyWhichString ==
  Chain(<<>>, <<"have">>,
        Called("property", <<ArgV>>) \o Bare("which") \o Bare("is") \o Called("String", <<>>))

TwoKeywordChains == {EmptyAndEqual, EmptyAndInstanceof, PropertyWhichString}

\* equality chains with a further argument after the expected value, as
\* x.should.equal(v, w) and should.equal(v, w, 'msg')
MessageChains ==
  {Chain(s, m, Called(kw, <<ArgV, ArgW>>)) :
     s \in Subjects, m \in {<<>>, <<"not">>}, kw \in {"equal", "deepEqual", "eql"}}
  \cup {Expr(Identifier("should"), Called(kw, <<ArgV, ArgW, Literal("msg")>>)) :
           kw \in {"equal", "deepEqual", "eql"}}

Chains ==
  {Chain(s, m, t) : s \in Subjects, m \in Mids, t \in KeywordTails}
    \cup StaticChains \cup ShouldCallChains \cup KeywordSubjectChains \cup LongChains
    \cup TwoKeywordChains \cup MessageChains

ShouldImport == ImportDecl("should", <<"should">>)

AssertImportInputs ==
  {<<>>,
   <<ShouldImport>>,
   <<ImportDecl("mocha", <<"describe", "it", "before", "after">>), ShouldImport>>,
   <<ImportDecl("node:test", <<"describe", "it">>), ImportDecl("node:assert", <<"assert">>)>>,
   <<ShouldImport, ImportDecl("assert", <<"assert">>)>>,
   <<ShouldImport, ImportDecl("lodash", <<"_">>)>>}

FilePaths ==
  {<<"test", "unit", "a.ts">>, <<"modules", "bitgo", "test", "a.ts">>,
   <<"repo", "modules", "bitgo", "a.ts">>}

HookSets == {S \in SUBSET Hooks : Cardinality(S) <= MaxHooks}

\* identifiers of the file that bear a hook's name and are no call of the hook,
\* as the property of opts.after
OtherIdentSets == {{}, {"after"}}

File(v, path, imps, calls, others, e) ==
  [variant |-> v, filePath |-> path, imports |-> imps, hookCalls |-> calls,
   otherIdents |-> others, tree |-> e, lead |-> <<>>]

\* every header with a few chains, and every chain under a few headers
HeaderFiles ==
  {File(v, path, imps, calls, others, e) :
     v \in {1, 2}, path \in FilePaths, imps \in AssertImportInputs, calls \in HookSets,
     others \in OtherIdentSets,
     e \in {Chain(<<>>, <<>>, Called("equal", <<ArgV>>)),
            Chain(<<>>, <<"be">>, Called("within", <<ArgV, ArgW>>)),
            Chain(<<>>, <<>>, Called("foo", <<ArgV>>))}}

ChainFiles ==
  {File(v, path, imps, {}, {}, e) :
     v \in {1, 2},
     path \in {<<"test", "unit", "a.ts">>, <<"modules", "bitgo", "test", "a.ts">>},
     imps \in {<<ShouldImport>>, <<ShouldImport, ImportDecl("lodash", <<"_">>)>>},
     e \in Chains}

\* y.should.equal(v); written before the last statement of the file
LeadStmt == Expr(Identifier("y"), <<MemberLink("should")>> \o Called("equal", <<ArgV>>))

LeadFiles ==
  {[File(v, <<"test", "unit", "a.ts">>, imps, {}, {}, e) EXCEPT !.lead = <<LeadStmt>>] :
     v \in {1, 2},
     imps \in {<<ShouldImport>>, <<ShouldImport, ImportDecl("lodash", <<"_">>)>>},
     e \in {Chain(<<>>, <<"be">>, Called("within", <<ArgV, ArgW>>)),
            Chain(<<>>, <<>>, Called("startWith", <<ArgV>>)),
            Chain(<<>>, <<>>, Called("equal", <<ArgV>>)),
            Chain(<<>>, <<>>, Called("foo", <<ArgV>>))}}

AssertInit ==
  /\ pc = "legacy"
  /\ run = 1
  /\ input \in HeaderFiles \cup ChainFiles \cup LeadFiles
  /\ variant = input.variant
  /\ filePath = input.filePath
  /\ imports = input.imports
  /\ hookCalls = input.hookCalls
  /\ otherIdents = input.otherIdents
  /\ tree = input.tree
  /\ lead = input.lead
  /\ out1 = NoText
  /\ sandboxDecl = FALSE
  /\ blocks = <<>>
  /\ src = <<>>
  /\ body = <<>>
  /\ stubChains = <<>>
  /\ work = <<>>

AssertNext ==
  \/ RemoveLegacyImports
  \/ AddNodeTestImport
  \/ AddAssertImport
  \/ EqualPass
  \/ DeepEqualPass
  \/ BooleanPass
  \/ StringPass
  \/ PatternsPass
  \/ ThrowPass
  \/ ShouldThrowErrorPass
  \/ PropertiesPass
  \/ NullRulePass
  \/ ExistPass
  \/ DoesNotThrowPass
  \/ ShouldCallPass
  \/ AssertReturn
  \/ AssertRerun

AssertSpec == AssertInit /\ [][AssertNext]_vars

\* ---- vocabulary of the claims on the assertion migration ----

\* all passes of a variant applied to one statement, as the pass actions apply them
RECURSIVE RunPasses(_, _, _)
RunPasses(v, e, ps) ==
  IF ps = <<>> THEN Same(e)
  ELSE LET r == ApplyPass(v, Head(ps), e)
           rest == RunPasses(v, r.tree, Tail(ps))
       IN IF r.threw THEN r ELSE Pass(rest.tree, r.lodash \/ rest.lodash, rest.threw)

Rewrite(v, e) == RunPasses(v, e, PassOrder(v))

AssertExpr(fn, args) == Expr(Identifier("assert"), <<MemberLink(fn), CallLink(args)>>)

LinkNames(e) == {e.links[k].name : k \in Members(e)}

HasNot(e) == "not" \in LinkNames(e)

\* the chain without its .not steps
Positive(e) == Expr(e.root, SelectSeq(e.links, LAMBDA l : l.name # "not"))

IsRewritten(e) == e.root = Identifier("assert")

Finished == variant # 0 /\ pc = "done"

\* C5: idempotence of the assertion migration. When the transform has run on its
\* own output, for any input file and any file path (paths under modules/bitgo/
\* included), the text it returns is the text it was given: no further node:test,
\* assert or lodash import, no further rewrite.
C5_AssertIdempotent == (Finished /\ run = 2) => PrintFile(imports, lead, tree) = out1

\* C8: the node:test import the assertion migration inserts (the input had none)
\* names describe, it and each lifecycle hook the file uses, each once; a hook
\* the file does not use is not imported.
C8_NodeTestImportSet ==
  (variant # 0 /\ run = 1 /\ pc \notin {"legacy", "nodeTest"}
     /\ ~hasImportFrom(input.imports, {"node:test"}))
  => \E i \in DOMAIN imports :
       /\ imports[i].kind = "ImportDeclaration" /\ imports[i].source = "node:test"
       /\ Range(imports[i].specifiers) = {"describe", "it"} \cup hookCalls
       /\ Len(imports[i].specifiers) = Cardinality(Range(imports[i].specifiers))

\* the rule families that accept a .not step, by the keyword of the chain
NegatableKeywords ==
  {"equal", "deepEqual", "eql", "empty", "Null", "throw", "throwError", "exist", "String",
   "property", "hasOwnProperty", "properties", "within", "startWith", "instanceof",
   "greaterThanOrEqual", "rejectedWith"}

\* C9: negation correctness. A chain of a negatable rule family that holds a .not
\* step, at whatever depth, is rewritten to an assert call, and never to the call
\* the same chain without .not is rewritten to.
C9_NegationCorrect ==
  (Finished /\ run = 1 /\ HasNot(input.tree)
     /\ LinkNames(input.tree) \cap NegatableKeywords # {}
     /\ ~Rewrite(variant, Positive(input.tree)).threw
     /\ IsRewritten(Rewrite(variant, Positive(input.tree)).tree))
  => /\ IsRewritten(tree)
     /\ tree # Rewrite(variant, Positive(input.tree)).tree

\* C10: Example 1. Every variant of the assertion transform rewrites
\* x.should.equal(v) to assert.strictEqual(x, v) and x.should.not.equal(v) to
\* assert.notStrictEqual(x, v).
C10_Example1 ==
  /\ (Finished /\ run = 1 /\ input.tree = Chain(<<>>, <<>>, Called("equal", <<ArgV>>)))
       => tree = AssertExpr("strictEqual", <<Identifier("x"), ArgV>>)
  /\ (Finished /\ run = 1 /\ input.tree = Chain(<<>>, <<"not">>, Called("equal", <<ArgV>>)))
       => tree = AssertExpr("notStrictEqual", <<Identifier("x"), ArgV>>)

\* the expression under test of an assertion chain: what .should is read from
SubjectOf(e) ==
  NodeAt(e, (CHOOSE k \in DOMAIN e.links : e.links[k].name = "should"
                                          /\ \A j \in 1 .. k - 1 : e.links[j].name # "should") - 1)

IsChainOn(e, mid, tail) == \E s \in Subjects : e = Chain(s, mid, tail)

LengthOf(n) == Node("MemberExpression", "length", <<n>>)

\* C11: Example 2. For every subject expression S, S.should.be.empty() is
\* rewritten to assert.equal(S.length, 0) and S.should.not.be.empty() to
\* assert.notEqual(S.length, 0), S being the whole expression under test.
C11_Example2 ==
  (Finished /\ run = 1) =>
    /\ IsChainOn(input.tree, <<"be">>, Called("empty", <<>>))
         => tree = AssertExpr("equal", <<LengthOf(SubjectOf(input.tree)), Literal("0")>>)
    /\ IsChainOn(input.tree, <<"not", "be">>, Called("empty", <<>>))
         => tree = AssertExpr("notEqual", <<LengthOf(SubjectOf(input.tree)), Literal("0")>>)

ShouldExist == Expr(Identifier("should"), Called("exist", <<ArgV>>))

ShouldNotExist == Expr(Identifier("should"), Bare("not") \o Called("exist", <<ArgV>>))

\* C12: Example 4. should.not.exist(x) is rewritten to assert.equal(x, undefined)
\* and should.exist(x) to assert.ok(x), x unchanged; on every other statement that
\* holds an exist step the exist rule changes nothing.
C12_Example4 ==
  /\ (Finished /\ run = 1 /\ input.tree = ShouldExist)
       => tree = AssertExpr("ok", <<ArgV>>)
  /\ (Finished /\ run = 1 /\ input.tree = ShouldNotExist)
       => tree = AssertExpr("equal", <<ArgV, Identifier("undefined")>>)
  /\ (variant # 0 /\ pc = "exist" /\ tree \notin {ShouldExist, ShouldNotExist})
       => ApplyPass(variant, "exist", tree) = Same(tree)

\* both static forms rewritten, and an exist step of another shape met by the rule
C12_Witness ==
  /\ Finished
  /\ run = 1
  /\ input.tree = ShouldNotExist
  /\ tree = AssertExpr("equal", <<ArgV, Identifier("undefined")>>)

C12_WitnessOther ==
  /\ variant # 0
  /\ pc = "exist"
  /\ "exist" \in LinkNames(tree)
  /\ tree \notin {ShouldExist, ShouldNotExist}

\* the steps of a chain after its first .should
StepsAfterShould(e) ==
  LET k == CHOOSE i \in DOMAIN e.links : e.links[i].name = "should"
                                         /\ \A j \in 1 .. i - 1 : e.links[j].name # "should"
  IN {e.links[i].name : i \in {j \in Members(e) : j > k}}

\* a should-chain on x that fits no shape of the catalogue: its steps after
\* .should are be / not and a last step no rule knows for this form of chain
FitsNoShape(e) ==
  /\ e.root = Identifier("x")
  /\ "should" \in LinkNames(e)
  /\ StepsAfterShould(e) \subseteq {"be", "not", "foo", "ok"}
  /\ StepsAfterShould(e) \cap {"foo", "ok"} # {}

\* the links of e from the first step named n on
RECURSIVE TailFrom(_, _)
TailFrom(links, n) ==
  IF links = <<>> THEN <<>>
  ELSE IF Head(links).name = n THEN links ELSE TailFrom(Tail(links), n)

\* C13: no-match preservation. A statement that fits no shape of the catalogue is
\* the same after the transform as before: a chain ending in an unrecognized
\* step, also when its subject has a property named like a keyword
\* (x.empty.should.be.ok()); and the unrecognized tail of a longer chain stays.
C13_NoMatchPreserved ==
  (Finished /\ run = 1) =>
    /\ FitsNoShape(input.tree) => tree = input.tree
    /\ input.tree \in LongChains => TailFrom(tree.links, "foo") = TailFrom(input.tree.links, "foo")

\* C20: the import normalizer runs first. In each transform an import declaration
\* is added or removed only while no statement of the file has been rewritten:
\* every change of the import block precedes the first rule replacement.
C20_ImportsFirst ==
  [][(run = 1 /\ run' = 1 /\ imports' # imports)
       => /\ body = src
          /\ variant # 0 => (tree = input.tree /\ lead = input.lead)]_vars

\* the passes that change statement e when they are applied to it
MatchingPasses(v, e) ==
  {n \in DOMAIN PassOrder(v) : ApplyPass(v, PassOrder(v)[n], e).tree # e}

\* e after the first pass, in the order of the source, that changes it
OneRule(v, e) ==
  IF MatchingPasses(v, e) = {} THEN e
  ELSE ApplyPass(v, PassOrder(v)[CHOOSE n \in MatchingPasses(v, e) :
                                    \A m \in MatchingPasses(v, e) : n <= m], e).tree

EqualityKeywords == {"equal", "deepEqual", "eql"}

EqualityTargets ==
  {"equal", "notEqual", "strictEqual", "notStrictEqual", "deepStrictEqual", "notDeepStrictEqual"}

\* should.equal(a, b, ..) and its deepEqual / eql forms
IsStaticEquality(e) ==
  /\ e.root = Identifier("should")
  /\ Len(e.links) = 2
  /\ e.links[1].t = "prop" /\ e.links[1].name \in EqualityKeywords
  /\ e.links[2].t = "call" /\ e.links[2].args # <<>>

\* S.should.equal(b, ..), with be / not steps between should and the keyword
IsChainEquality(e, mid) ==
  \E kw \in EqualityKeywords : \E as \in {<<ArgV>>, <<ArgV, ArgW>>} :
     IsChainOn(e, mid, Called(kw, as))

SourceArgs(e) == e.links[Len(e.links)].args

\* the subject followed by the source arguments
ExpectedArgs(e) ==
  IF IsStaticEquality(e) THEN SourceArgs(e) ELSE <<SubjectOf(e)>> \o SourceArgs(e)

IsEqualityCallOn(e, as) ==
  \E fn \in EqualityTargets : e = AssertExpr(fn, as)

\* C25: argument order of the equality rules. should.equal(a, b, ..rest) and
\* S.should.equal(b, ..rest), and their deepEqual / eql forms, are rewritten to
\* one assert call whose arguments are the subject followed by the other source
\* arguments in source order, none dropped and none twice; a chain with be / not
\* steps that an equality rule rewrites gets the same arguments.
C25_ArgumentOrder ==
  (Finished /\ run = 1) =>
    /\ (IsStaticEquality(input.tree) \/ IsChainEquality(input.tree, <<>>))
         => IsEqualityCallOn(tree, ExpectedArgs(input.tree))
    /\ \A m \in Mids :
         (IsChainEquality(input.tree, m) /\ IsRewritten(tree))
           => IsEqualityCallOn(tree, ExpectedArgs(input.tree))

\* a finished run on an equality call with a further argument
C25_Witness ==
  /\ Finished
  /\ run = 1
  /\ input.tree \in MessageChains
  /\ IsEqualityCallOn(tree, ExpectedArgs(input.tree))
  /\ Len(ExpectedArgs(input.tree)) = 3

\* the keywords of the chain-based rules that put the subject into the target call
SubjectRuleKeywords ==
  {"rejectedWith", "fulfilled", "empty", "hasOwnProperty", "startWith", "instanceof",
   "propertyByPath", "property", "greaterThanOrEqual", "within", "properties"}

\* S.should[.be][.not].kw(..) for a keyword of these rules
IsSubjectRuleChain(e) ==
  \E sub \in Subjects, m \in Mids, t \in KeywordTails :
     /\ e = Chain(sub, m, t)
     /\ t[1].name \in SubjectRuleKeywords

RECURSIVE Contains(_, _)
\* node n is sub or holds it
Contains(n, sub) == n = sub \/ \E i \in DOMAIN n.args : Contains(n.args[i], sub)

\* C26: subject extraction. When a chain-based rule (rejectedWith, fulfilled,
\* empty, hasOwnProperty, startWith, instanceof, propertyByPath, property,
\* greaterThanOrEqual, within, properties) has rewritten S.should...kw(..), the
\* target call holds S, the whole expression to the left of .should, also when S
\* is a property access such as x.b.
C26_SubjectExtraction ==
  (Finished /\ run = 1 /\ IsSubjectRuleChain(input.tree) /\ IsRewritten(tree)) =>
    \E a \in Range(tree.links[2].args) : Contains(a, SubjectOf(input.tree))

\* should(v).throwError() with no message argument
ThrowErrorNoMessage == Expr(Identifier("should"), <<CallLink(<<ArgV>>)>> \o Called("throwError", <<>>))

\* C27: should(fn).throwError() without a message never makes the transform
\* throw: the run ends with the statement turned into an assert.throws call on
\* fn, or left as it was.
C27_ThrowErrorNoMessage ==
  (run = 1 /\ input.tree = ThrowErrorNoMessage) =>
    /\ pc # "threw"
    /\ Finished =>
         \/ tree = input.tree
         \/ /\ IsRewritten(tree)
            /\ tree.links[1].name = "throws"
            /\ tree.links[2].args # <<>>
            /\ tree.links[2].args[1] = ArgV

=============================================================================
